---- MODULE Spec2Model ----
(***************************************************************************)
(* A model of the TF2 killicon sprite generator (src/generate.py): the     *)
(* name resolver find_weapon_icon, the row packer pack_sprites, the        *)
(* stylesheet emitter generate_css and the pipeline main that joins them.  *)
(*                                                                         *)
(* Strings are sequences of one-character strings, so that concatenation   *)
(* (mapped_name + suffix), the substring test (a in b) and the ordering    *)
(* used by sorted() are computed as Python computes them.  A Python dict   *)
(* is a sequence of items [k |-> key, v |-> value] with distinct keys, in  *)
(* insertion order, which is the order Python iterates it in.              *)
(***************************************************************************)
EXTENDS Integers, Sequences, FiniteSets, TLC

VARIABLES
    pc,                    \* position in the code
    caller,                \* who called find_weapon_icon / pack_sprites
    aliasTable,            \* the module-level dict WEAPON_ALIASES
    definitions,           \* dict name -> KilliconDefinition
    community_definitions, \* dict parsed from the community mod
    official_definitions,  \* what parse_mod_textures returned, as returned
    sprites,               \* set of sheet ids that were loaded
    community_sprites,     \* sheet ids load_community_sprites returned
    weapons,               \* main: list(definitions.keys())
    widx,                  \* main: index of the weapon being processed
    weapon_name,           \* the name find_weapon_icon was first called with
    frame_name,            \* weapon_name of the innermost find_weapon_icon frame
    depth,                 \* alias redirections followed so far
    result,                \* what find_weapon_icon returned (or raised)
    missing,               \* main: names with no icon
    icons,                 \* dict name -> [width, height] of the cropped image
    sorted_icons,          \* pack_sprites: icons.items() sorted by height
    idx,                   \* pack_sprites: loop index
    current_x, current_y, row_height, max_width,
    positions,             \* dict name -> [x, y, width, height]
    sheet_size,            \* size of the composite image
    pasted,                \* regions pasted into the composite, in paste order
    css,                   \* generate_css: the rule blocks emitted, in order
    misc_vpk_exists,       \* main: vpk/tf2_misc_dir.vpk exists
    textures_vpk_exists,   \* main: vpk/tf2_textures_dir.vpk exists
    has_mod_textures,      \* scripts/mod_textures.txt is an entry of the misc VPK
    vpk_sprites,           \* sheet ids extract_sprite_sheets finds and decodes
    written,               \* output files of dist/ written by this run
    parser,                \* which of the two definition parsers is running
    lines,                 \* parser: content.split('\n')
    cursor,                \* parser: the line cursor i (0-based)
    weapon_block,          \* parser: weapon_name of the block being read
    props,                 \* parser: dict of the block's properties
    parsed,                \* parser: the definitions dict being built
    skipped,               \* parser: names whose coordinates raised ValueError
    reads,                 \* parser: every index at which lines was read
    blocks                 \* the blocks a document was written from

\* What the run finds on disk; no step changes it.
envVars == <<misc_vpk_exists, textures_vpk_exists, has_mod_textures,
             vpk_sprites>>

parseVars == <<parser, lines, cursor, weapon_block, props, parsed, skipped,
               reads, blocks>>

vars == <<pc, caller, aliasTable, definitions, community_definitions,
          sprites, weapons, widx, weapon_name, frame_name, depth, result,
          missing, icons, sorted_icons, idx, current_x, current_y,
          row_height, max_width, positions, sheet_size, pasted, css,
          community_sprites, official_definitions, envVars, written,
          parseVars>>

---------------------------------------------------------------------------
(* Names.  Each is the Python string of the same spelling. *)

s_skull == <<"s", "k", "u", "l", "l">>
s_world == <<"w", "o", "r", "l", "d">>
s_pickaxe == <<"p", "i", "c", "k", "a", "x", "e">>
s_unique_pickaxe == <<"u", "n", "i", "q", "u", "e", "_", "p", "i", "c", "k", "a", "x", "e">>
s_axe == <<"a", "x", "e">>
s_saw == <<"s", "a", "w">>
s_saw_kill == <<"s", "a", "w", "_", "k", "i", "l", "l">>
s_sawdeath == <<"s", "a", "w", "d", "e", "a", "t", "h">>
s_sniperrifle == <<"s", "n", "i", "p", "e", "r", "r", "i", "f", "l", "e">>
s_awper_hand == <<"a", "w", "p", "e", "r", "_", "h", "a", "n", "d">>
s_holymackerel == <<"h", "o", "l", "y", "m", "a", "c", "k", "e", "r", "e", "l">>
s_holy_mackerel == <<"h", "o", "l", "y", "_", "m", "a", "c", "k", "e", "r", "e", "l">>
s_club == <<"c", "l", "u", "b">>
s_kukri == <<"k", "u", "k", "r", "i">>
s_taunt_guitar_kill == <<"t", "a", "u", "n", "t", "_", "g", "u", "i", "t", "a", "r", "_", "k", "i", "l", "l">>

\* The characters of the names above, in code point order: '-' < '_' < 'a'.
Alphabet ==
    <<"-", "_", "a", "b", "c", "d", "e", "f", "g", "h", "i", "k", "l", "m", "n",
      "o", "p", "q", "r", "s", "t", "u", "w", "x", "y">>

Ord(c) == CHOOSE i \in DOMAIN Alphabet : Alphabet[i] = c

\* Python's a < b on str: the first differing character decides, a proper
\* prefix is smaller.
RECURSIVE StrLess(_, _)
StrLess(a, b) ==
    IF b = <<>> THEN FALSE
    ELSE IF a = <<>> THEN TRUE
    ELSE IF Head(a) = Head(b) THEN StrLess(Tail(a), Tail(b))
    ELSE Ord(Head(a)) < Ord(Head(b))

\* Python's a in b on str.
IsSubstring(a, b) ==
    \E i \in 0..(Len(b) - Len(a)) : SubSeq(b, i + 1, i + Len(a)) = a

---------------------------------------------------------------------------
(* Python dict operations on item sequences. *)

Item(k, v) == [k |-> k, v |-> v]

Keys(d) == {d[i].k : i \in DOMAIN d}

KeyList(d) == [i \in DOMAIN d |-> d[i].k]

Has(d, k) == \E i \in DOMAIN d : d[i].k = k

Get(d, k) == d[CHOOSE i \in DOMAIN d : d[i].k = k].v

GetOr(d, k, default) == IF Has(d, k) THEN Get(d, k) ELSE default

\* d[k] = v: an existing key keeps its place, a new key goes last.
Put(d, k, v) ==
    IF Has(d, k)
    THEN [i \in DOMAIN d |-> IF d[i].k = k THEN Item(k, v) ELSE d[i]]
    ELSE Append(d, Item(k, v))

\* d.update(e)
RECURSIVE Update(_, _)
Update(d, e) ==
    IF e = <<>> THEN d ELSE Update(Put(d, Head(e).k, Head(e).v), Tail(e))

---------------------------------------------------------------------------
(* The static tables, restricted to the names of this model.  An entry of  *)
(* WEAPON_MAPPINGS is kept when its key is a name the resolver is asked    *)
(* for, or when its target is a name pack_sprites can leave in positions,  *)
(* which is where generate_css looks the target up.  That keeps the three  *)
(* shapes an entry has in the source: a target that is another name        *)
(* (kukri -> club), a target that is the key itself (taunt_guitar_kill),   *)
(* and a target that is an alias key whose canonical name is the key       *)
(* (holy_mackerel -> holymackerel -> holy_mackerel).                       *)

WEAPON_MAPPINGS ==
    << Item(s_unique_pickaxe, s_pickaxe),
       Item(s_world, s_skull),
       Item(s_kukri, s_club),
       Item(s_taunt_guitar_kill, s_taunt_guitar_kill),
       Item(s_holy_mackerel, s_holymackerel) >>

WEAPON_ALIASES ==
    << Item(s_holymackerel, s_holy_mackerel),
       Item(s_awper_hand, s_sniperrifle) >>

\* The suffixes tried by step 2, in order.
Suffixes == << <<"_", "k", "i", "l", "l">>, <<"d", "e", "a", "t", "h">> >>

KilliconDefinition(name, sprite, x, y, width, height) ==
    [name |-> name, sprite |-> sprite, x |-> x, y |-> y,
     width |-> width, height |-> height]

None == [tag |-> "None"]
Pending == [tag |-> "pending"]
RecursionError == [tag |-> "RecursionError"]

---------------------------------------------------------------------------
(* find_weapon_icon *)

MappedName(name) == GetOr(WEAPON_MAPPINGS, name, name)

\* Step 1: exact match.
ExactMatch(mapped_name, defs) ==
    IF Has(defs, mapped_name) THEN Get(defs, mapped_name) ELSE None

\* A variant of step 2 that tries the suffixes in the opposite order.
SuffixMatch_LastFirst(mapped_name, defs) ==
    IF \E s \in DOMAIN Suffixes : Has(defs, mapped_name \o Suffixes[s])
    THEN LET s == CHOOSE s \in DOMAIN Suffixes :
                    /\ Has(defs, mapped_name \o Suffixes[s])
                    /\ \A t \in (s + 1)..Len(Suffixes) :
                          ~Has(defs, mapped_name \o Suffixes[t])
         IN Get(defs, mapped_name \o Suffixes[s])
    ELSE None

\* Step 2: the first suffix whose candidate is a key.
SuffixMatch(mapped_name, defs) ==
    IF \E s \in DOMAIN Suffixes : Has(defs, mapped_name \o Suffixes[s])
    THEN LET s == CHOOSE s \in DOMAIN Suffixes :
                    /\ Has(defs, mapped_name \o Suffixes[s])
                    /\ \A t \in 1..(s - 1) :
                          ~Has(defs, mapped_name \o Suffixes[t])
         IN Get(defs, mapped_name \o Suffixes[s])
    ELSE None

PartialHit(mapped_name, def_name) ==
    IsSubstring(mapped_name, def_name) \/ IsSubstring(def_name, mapped_name)

\* Step 3: the first item, in iteration order, whose name matches partially.
PartialMatch(mapped_name, defs) ==
    IF \E i \in DOMAIN defs : PartialHit(mapped_name, defs[i].k)
    THEN LET i == CHOOSE i \in DOMAIN defs :
                    /\ PartialHit(mapped_name, defs[i].k)
                    /\ \A j \in 1..(i - 1) : ~PartialHit(mapped_name, defs[j].k)
         IN defs[i].v
    ELSE None

\* Steps 1 to 3 of one call: the definition returned, or None when the call
\* goes on to step 4.
DirectMatch(name, defs) ==
    LET mapped_name == MappedName(name)
        r1 == ExactMatch(mapped_name, defs)
        r2 == SuffixMatch(mapped_name, defs)
    IN IF r1 # None THEN r1
       ELSE IF r2 # None THEN r2
       ELSE PartialMatch(mapped_name, defs)

\* A variant of step 4 that looks the mapped name up in the alias table.
AliasKey_Mapped(name) == MappedName(name)

\* Step 4 tests the name the call was given, not the mapped one.
AliasKey(name) == name

\* The number of nested find_weapon_icon frames the interpreter allows before
\* it raises RecursionError (sys.getrecursionlimit(), scaled down).
RecursionLimit == 12

FindReturnHit ==
    /\ pc = "find"
    /\ DirectMatch(frame_name, definitions) # None
    /\ result' = DirectMatch(frame_name, definitions)
    /\ pc' = "returned"
    /\ UNCHANGED <<caller, aliasTable, definitions, community_definitions,
                   sprites, weapons, widx, weapon_name, frame_name, depth,
                   missing, icons, sorted_icons, idx, current_x, current_y,
                   row_height, max_width, positions, sheet_size, pasted, css,
                   community_sprites, official_definitions, envVars, written,
                   parseVars>>

FindAlias ==
    /\ pc = "find"
    /\ DirectMatch(frame_name, definitions) = None
    /\ Has(aliasTable, AliasKey(frame_name))
    /\ depth + 1 < RecursionLimit
    /\ frame_name' = Get(aliasTable, AliasKey(frame_name))
    /\ depth' = depth + 1
    /\ UNCHANGED <<pc, caller, aliasTable, definitions,
                   community_definitions, sprites, weapons, widx,
                   weapon_name, result, missing, icons, sorted_icons, idx,
                   current_x, current_y, row_height, max_width, positions,
                   sheet_size, pasted, css, community_sprites,
                   official_definitions, envVars, written, parseVars>>

FindRecursionError ==
    /\ pc = "find"
    /\ DirectMatch(frame_name, definitions) = None
    /\ Has(aliasTable, AliasKey(frame_name))
    /\ depth + 1 >= RecursionLimit
    /\ result' = RecursionError
    /\ pc' = "raised"
    /\ UNCHANGED <<caller, aliasTable, definitions, community_definitions,
                   sprites, weapons, widx, weapon_name, frame_name, depth,
                   missing, icons, sorted_icons, idx, current_x, current_y,
                   row_height, max_width, positions, sheet_size, pasted, css,
                   community_sprites, official_definitions, envVars, written,
                   parseVars>>

FindReturnNone ==
    /\ pc = "find"
    /\ DirectMatch(frame_name, definitions) = None
    /\ ~Has(aliasTable, AliasKey(frame_name))
    /\ result' = None
    /\ pc' = "returned"
    /\ UNCHANGED <<caller, aliasTable, definitions, community_definitions,
                   sprites, weapons, widx, weapon_name, frame_name, depth,
                   missing, icons, sorted_icons, idx, current_x, current_y,
                   row_height, max_width, positions, sheet_size, pasted, css,
                   community_sprites, official_definitions, envVars, written,
                   parseVars>>

---------------------------------------------------------------------------
(* The resolver on its own: any query name, any definitions. *)

MaxDefs == 3

DefNames ==
    {s_skull, s_pickaxe, s_unique_pickaxe, s_axe, s_saw_kill, s_sawdeath,
     s_sniperrifle}

QueryNames ==
    {s_world, s_skull, s_pickaxe, s_unique_pickaxe, s_saw, s_awper_hand,
     s_holymackerel, s_holy_mackerel}

\* A definition as the parser builds it: keyed by its own name.
DefaultDef(name) == KilliconDefinition(name, "d_images", 0, 0, 32, 32)

\* definitions holds the names ks, in that order.
DefTable(n, ks) == [i \in 1..n |-> Item(ks[i], DefaultDef(ks[i]))]

Distinct(seq) == \A i, j \in DOMAIN seq : seq[i] = seq[j] => i = j

\* Both archives, the document and one official sheet are there.
InputsPresent ==
    /\ misc_vpk_exists = TRUE
    /\ textures_vpk_exists = TRUE
    /\ has_mod_textures = TRUE
    /\ vpk_sprites = {"d_images"}

\* No definition parser is running.
NotParsing ==
    /\ parser = "none"
    /\ lines = <<>>
    /\ cursor = 0
    /\ weapon_block = <<>>
    /\ props = <<>>
    /\ parsed = <<>>
    /\ skipped = <<>>
    /\ reads = {}
    /\ blocks = <<>>

Idle ==
    /\ caller = "none"
    /\ community_definitions = <<>>
    /\ official_definitions = <<>>
    /\ sprites = {}
    /\ community_sprites = {}
    /\ weapons = <<>>
    /\ widx = 0
    /\ missing = <<>>
    /\ icons = <<>>
    /\ sorted_icons = <<>>
    /\ idx = 0
    /\ current_x = 0
    /\ current_y = 0
    /\ row_height = 0
    /\ max_width = 0
    /\ positions = <<>>
    /\ sheet_size = <<0, 0>>
    /\ pasted = <<>>
    /\ css = <<>>
    /\ InputsPresent
    /\ written = {}

InitResolve ==
    /\ Idle
    /\ NotParsing
    /\ pc = "find"
    /\ aliasTable = WEAPON_ALIASES
    /\ \E n \in 0..MaxDefs :
          \E ks \in [1..n -> DefNames] :
             Distinct(ks) /\ definitions = DefTable(n, ks)
    /\ weapon_name \in QueryNames
    /\ frame_name = weapon_name
    /\ depth = 0
    /\ result = Pending

NextResolve == FindReturnHit \/ FindAlias \/ FindReturnNone

SpecResolve == InitResolve /\ [][NextResolve]_vars

(* A crafted alias table holding a cycle a -> b -> a. *)

CycleNames == {s_saw, s_world, s_awper_hand}

CycleTables ==
    {<<Item(a, b), Item(b, a)>> : a \in CycleNames, b \in CycleNames} \
        {<<Item(a, a), Item(a, a)>> : a \in CycleNames}

InitCycle ==
    /\ Idle
    /\ NotParsing
    /\ pc = "find"
    /\ aliasTable \in CycleTables
    /\ \E n \in 0..MaxDefs :
          \E ks \in [1..n -> DefNames] :
             Distinct(ks) /\ definitions = DefTable(n, ks)
    /\ weapon_name \in CycleNames
    /\ frame_name = weapon_name
    /\ depth = 0
    /\ result = Pending

NextCycle == FindReturnHit \/ FindAlias \/ FindRecursionError \/ FindReturnNone

SpecCycle == InitCycle /\ [][NextCycle]_vars

---------------------------------------------------------------------------
(* pack_sprites *)

\* The fixed target row width.
target_width == 512

Rect(x, y, width, height) == [x |-> x, y |-> y, width |-> width, height |-> height]

\* A variant of the insertion that puts an item before the items of its height.
InsertByHeight_BeforeEqual(sorted, item) ==
    LET n == Cardinality({i \in DOMAIN sorted :
                            sorted[i].v.height > item.v.height})
    IN SubSeq(sorted, 1, n) \o <<item>> \o SubSeq(sorted, n + 1, Len(sorted))

\* One insertion of the stable descending sort: the item goes after every
\* item at least as high, so items of equal height keep their input order.
InsertByHeight(sorted, item) ==
    LET n == Cardinality({i \in DOMAIN sorted :
                            sorted[i].v.height >= item.v.height})
    IN SubSeq(sorted, 1, n) \o <<item>> \o SubSeq(sorted, n + 1, Len(sorted))

\* sorted(icons.items(), key=height, reverse=True)
RECURSIVE SortedByHeight(_)
SortedByHeight(items) ==
    IF items = <<>> THEN <<>>
    ELSE InsertByHeight(SortedByHeight(SubSeq(items, 1, Len(items) - 1)),
                        items[Len(items)])

NeedsNewRow(x, width) == x + width > target_width /\ x > 0

Max(a, b) == IF a >= b THEN a ELSE b

\* A variant that keeps the height of the last image of the row.
RowHeightAfter_Last(rh, height) == height

RowHeightAfter(rh, height) == Max(rh, height)

\* A variant that keeps the right edge of the last image placed.
MaxWidthAfter_Last(mw, x) == x

MaxWidthAfter(mw, x) == Max(mw, x)

PackEmpty ==
    /\ pc = "pack"
    /\ icons = <<>>
    /\ sheet_size' = <<1, 1>>
    /\ positions' = <<>>
    /\ pc' = "packed"
    /\ UNCHANGED <<caller, aliasTable, definitions, community_definitions,
                   sprites, weapons, widx, weapon_name, frame_name, depth,
                   result, missing, icons, sorted_icons, idx, current_x,
                   current_y, row_height, max_width, pasted, css,
                   community_sprites, official_definitions, envVars, written,
                   parseVars>>

PackSort ==
    /\ pc = "pack"
    /\ icons # <<>>
    /\ sorted_icons' = SortedByHeight(icons)
    /\ current_x' = 0
    /\ current_y' = 0
    /\ row_height' = 0
    /\ max_width' = 0
    /\ positions' = <<>>
    /\ idx' = 1
    /\ pc' = "place"
    /\ UNCHANGED <<caller, aliasTable, definitions, community_definitions,
                   sprites, weapons, widx, weapon_name, frame_name, depth,
                   result, missing, icons, sheet_size, pasted, css,
                   community_sprites, official_definitions, envVars, written,
                   parseVars>>

\* One iteration of the placement loop.
PackPlace ==
    /\ pc = "place"
    /\ idx <= Len(sorted_icons)
    /\ LET name == sorted_icons[idx].k
           img == sorted_icons[idx].v
           newRow == NeedsNewRow(current_x, img.width)
           x == IF newRow THEN 0 ELSE current_x
           y == IF newRow THEN current_y + row_height ELSE current_y
           rh == IF newRow THEN 0 ELSE row_height
       IN /\ positions' = Put(positions, name, Rect(x, y, img.width, img.height))
          /\ current_x' = x + img.width
          /\ current_y' = y
          /\ row_height' = RowHeightAfter(rh, img.height)
          /\ max_width' = MaxWidthAfter(max_width, x + img.width)
    /\ idx' = idx + 1
    /\ UNCHANGED <<pc, caller, aliasTable, definitions,
                   community_definitions, sprites, weapons, widx,
                   weapon_name, frame_name, depth, result, missing, icons,
                   sorted_icons, sheet_size, pasted, css, community_sprites,
                   official_definitions, envVars, written, parseVars>>

\* The composite is created with the final dimensions and every recorded
\* rect is pasted at its place.
PackPaste ==
    /\ pc = "place"
    /\ idx > Len(sorted_icons)
    /\ sheet_size' = <<max_width, current_y + row_height>>
    /\ pasted' = [i \in DOMAIN positions |->
                    [name |-> positions[i].k, rect |-> positions[i].v]]
    /\ pc' = "alias"
    /\ UNCHANGED <<caller, aliasTable, definitions, community_definitions,
                   sprites, weapons, widx, weapon_name, frame_name, depth,
                   result, missing, icons, sorted_icons, idx, current_x,
                   current_y, row_height, max_width, positions, css,
                   community_sprites, official_definitions, envVars, written,
                   parseVars>>

\* A variant of the post-step that leaves an alias alone when it has an entry.
SetAlias_KeepOwn(pos, alias, canonical) ==
    IF Has(pos, canonical) /\ ~Has(pos, alias)
    THEN Put(pos, alias, Get(pos, canonical))
    ELSE pos

SetAlias(pos, alias, canonical) ==
    IF Has(pos, canonical) THEN Put(pos, alias, Get(pos, canonical)) ELSE pos

\* for alias, canonical in aliases.items(): ...
RECURSIVE AddAliases(_, _)
AddAliases(pos, aliases) ==
    IF aliases = <<>> THEN pos
    ELSE AddAliases(SetAlias(pos, Head(aliases).k, Head(aliases).v),
                    Tail(aliases))

PackAliases ==
    /\ pc = "alias"
    /\ positions' = AddAliases(positions, aliasTable)
    /\ pc' = "packed"
    /\ UNCHANGED <<caller, aliasTable, definitions, community_definitions,
                   sprites, weapons, widx, weapon_name, frame_name, depth,
                   result, missing, icons, sorted_icons, idx, current_x,
                   current_y, row_height, max_width, sheet_size, pasted, css,
                   community_sprites, official_definitions, envVars, written,
                   parseVars>>

---------------------------------------------------------------------------
(* generate_css *)

\* A variant that exports the packed names only.
AllWeapons_PositionsOnly(pos) == Keys(pos)

\* positions.keys() plus every mapping key whose target has a position.
AllWeapons(pos) ==
    Keys(pos) \cup {WEAPON_MAPPINGS[i].k : i \in
                      {j \in DOMAIN WEAPON_MAPPINGS :
                          Has(pos, WEAPON_MAPPINGS[j].v)}}

ReverseMappings(pos) ==
    LET hits == {j \in DOMAIN WEAPON_MAPPINGS : Has(pos, WEAPON_MAPPINGS[j].v)}
    IN [k \in {WEAPON_MAPPINGS[j].k : j \in hits} |-> Get(WEAPON_MAPPINGS, k)]

\* sorted() on a set of str
RECURSIVE SortedNames(_)
SortedNames(S) ==
    IF S = {} THEN <<>>
    ELSE LET least == CHOOSE a \in S : \A b \in S \ {a} : StrLess(a, b)
         IN <<least>> \o SortedNames(S \ {least})

\* "-{x}px": a minus sign followed by the number.
Offset(n) == [sign |-> "-", px |-> n]

\* A variant in which a packed name keeps its own rect.
CssRule_OwnFirst(name, pos) ==
    LET rect == IF Has(pos, name) THEN Get(pos, name)
                ELSE Get(pos, Get(WEAPON_MAPPINGS, name))
    IN [selector |-> name, width |-> rect.width, height |-> rect.height,
        left |-> Offset(rect.x), top |-> Offset(rect.y)]

\* The rule block of one name.
CssRule(name, pos) ==
    LET rev == ReverseMappings(pos)
        rect == IF name \in DOMAIN rev THEN Get(pos, rev[name])
                ELSE Get(pos, name)
    IN [selector |-> name, width |-> rect.width, height |-> rect.height,
        left |-> Offset(rect.x), top |-> Offset(rect.y)]

CssRules(pos) ==
    LET names == SortedNames(AllWeapons(pos))
    IN [i \in DOMAIN names |-> CssRule(names[i], pos)]

\* main: sprite_sheet.save(output_webp, ...)
MainSaveSprite ==
    /\ pc = "packed"
    /\ written' = written \cup {"killicons.webp"}
    /\ pc' = "css"
    /\ UNCHANGED <<caller, aliasTable, definitions, community_definitions,
                   sprites, weapons, widx, weapon_name, frame_name, depth,
                   result, missing, icons, sorted_icons, idx, current_x,
                   current_y, row_height, max_width, positions, sheet_size,
                   pasted, css, community_sprites, official_definitions,
                   envVars, parseVars>>

GenerateCss ==
    /\ pc = "css"
    /\ css' = CssRules(positions)
    /\ written' = written \cup {"killicons.css"}
    /\ pc' = "done"
    /\ UNCHANGED <<caller, aliasTable, definitions, community_definitions,
                   sprites, weapons, widx, weapon_name, frame_name, depth,
                   result, missing, icons, sorted_icons, idx, current_x,
                   current_y, row_height, max_width, positions, sheet_size,
                   pasted, community_sprites, official_definitions, envVars,
                   parseVars>>

---------------------------------------------------------------------------
(* pack_sprites and generate_css on any icons. *)

MaxIcons == 3

\* The names icons can hold: a mapping target and its key (club, kukri), an
\* alias canonical and its key (sniperrifle, awper_hand), the key of the
\* mapping onto itself (taunt_guitar_kill), and the key whose mapping
\* target is an alias key for it (holy_mackerel).
PackNames ==
    {s_club, s_kukri, s_sniperrifle, s_awper_hand, s_holy_mackerel,
     s_taunt_guitar_kill}

Image(width, height) == [width |-> width, height |-> height]

\* The sizes an image can have: the 300x40 and 300x20 of the documented
\* example, which do not fit one row together; a 212x20 that fits beside a
\* 300 wide image (300 + 212 is not above 512) but not beside two; and a
\* 600x20, wider than the sheet.
Images == {Image(300, 40), Image(300, 20), Image(212, 20), Image(600, 20)}

\* icons is a dict of the n names ks with the images im.
IconDict(n, ks, im) == [i \in 1..n |-> Item(ks[i], im[i])]

InitPack ==
    /\ pc = "pack"
    /\ caller = "none"
    /\ aliasTable = WEAPON_ALIASES
    /\ definitions = <<>>
    /\ community_definitions = <<>>
    /\ official_definitions = <<>>
    /\ sprites = {}
    /\ community_sprites = {}
    /\ weapons = <<>>
    /\ widx = 0
    /\ weapon_name = <<>>
    /\ frame_name = <<>>
    /\ depth = 0
    /\ result = Pending
    /\ missing = <<>>
    /\ \E n \in 0..MaxIcons :
          \E ks \in [1..n -> PackNames] :
             /\ Distinct(ks)
             /\ \E im \in [1..n -> Images] : icons = IconDict(n, ks, im)
    /\ sorted_icons = <<>>
    /\ idx = 0
    /\ current_x = 0
    /\ current_y = 0
    /\ row_height = 0
    /\ max_width = 0
    /\ positions = <<>>
    /\ sheet_size = <<0, 0>>
    /\ pasted = <<>>
    /\ css = <<>>
    /\ InputsPresent
    /\ written = {}
    /\ NotParsing

NextPack ==
    \/ PackEmpty
    \/ PackSort
    \/ PackPlace
    \/ PackPaste
    \/ PackAliases
    \/ MainSaveSprite
    \/ GenerateCss

SpecPack == InitPack /\ [][NextPack]_vars

---------------------------------------------------------------------------
(* main, from the merge of the community mod on. *)

\* A variant of the merge in which a name already defined keeps its
\* definition.
Merge_FirstWins(defs, community) ==
    Update(defs, SelectSeq(community, LAMBDA it : ~Has(defs, it.k)))

\* definitions.update(community_definitions)
Merge(defs, community) == Update(defs, community)

MainMerge ==
    /\ pc = "main_merge"
    /\ sprites' = sprites \cup community_sprites
    /\ definitions' = Merge(definitions, community_definitions)
    /\ weapons' = KeyList(definitions')
    /\ icons' = <<>>
    /\ missing' = <<>>
    /\ widx' = 1
    /\ pc' = "main_loop"
    /\ UNCHANGED <<caller, aliasTable, community_definitions, weapon_name,
                   frame_name, depth, result, sorted_icons, idx, current_x,
                   current_y, row_height, max_width, positions, sheet_size,
                   pasted, css, community_sprites, official_definitions,
                   envVars, written, parseVars>>

\* for weapon_name in weapons: definition = find_weapon_icon(weapon_name, ...)
MainNextWeapon ==
    /\ pc = "main_loop"
    /\ widx <= Len(weapons)
    /\ weapon_name' = weapons[widx]
    /\ frame_name' = weapons[widx]
    /\ depth' = 0
    /\ result' = Pending
    /\ pc' = "find"
    /\ UNCHANGED <<caller, aliasTable, definitions, community_definitions,
                   sprites, weapons, widx, missing, icons, sorted_icons, idx,
                   current_x, current_y, row_height, max_width, positions,
                   sheet_size, pasted, css, community_sprites,
                   official_definitions, envVars, written, parseVars>>

\* if not definition: missing.append(weapon_name); continue
MainMissing ==
    /\ pc = "returned"
    /\ caller = "main"
    /\ result = None
    /\ missing' = Append(missing, weapon_name)
    /\ widx' = widx + 1
    /\ pc' = "main_loop"
    /\ UNCHANGED <<caller, aliasTable, definitions, community_definitions,
                   sprites, weapons, weapon_name, frame_name, depth, result,
                   icons, sorted_icons, idx, current_x, current_y,
                   row_height, max_width, positions, sheet_size, pasted, css,
                   community_sprites, official_definitions, envVars, written,
                   parseVars>>

\* if definition.sprite not in sprites: warn; continue
MainNoSheet ==
    /\ pc = "returned"
    /\ caller = "main"
    /\ result # None
    /\ result.sprite \notin sprites
    /\ widx' = widx + 1
    /\ pc' = "main_loop"
    /\ UNCHANGED <<caller, aliasTable, definitions, community_definitions,
                   sprites, weapons, weapon_name, frame_name, depth, result,
                   missing, icons, sorted_icons, idx, current_x, current_y,
                   row_height, max_width, positions, sheet_size, pasted, css,
                   community_sprites, official_definitions, envVars, written,
                   parseVars>>

\* The image cropped for a definition has the definition's width and height
\* (the definitions of this model have positive sizes, for which crop does
\* not fail).
Crop(definition) == [width |-> definition.width, height |-> definition.height]

\* icons[weapon_name] = (sprite.crop(...), definition.width, definition.height)
MainCrop ==
    /\ pc = "returned"
    /\ caller = "main"
    /\ result # None
    /\ result.sprite \in sprites
    /\ icons' = Put(icons, weapon_name, Crop(result))
    /\ widx' = widx + 1
    /\ pc' = "main_loop"
    /\ UNCHANGED <<caller, aliasTable, definitions, community_definitions,
                   sprites, weapons, weapon_name, frame_name, depth, result,
                   missing, sorted_icons, idx, current_x, current_y,
                   row_height, max_width, positions, sheet_size, pasted, css,
                   community_sprites, official_definitions, envVars, written,
                   parseVars>>

\* sprite_sheet, positions = pack_sprites(icons, WEAPON_ALIASES)
MainCallPack ==
    /\ pc = "main_loop"
    /\ widx > Len(weapons)
    /\ pc' = "pack"
    /\ UNCHANGED <<caller, aliasTable, definitions, community_definitions,
                   sprites, weapons, widx, weapon_name, frame_name, depth,
                   result, missing, icons, sorted_icons, idx, current_x,
                   current_y, row_height, max_width, positions, sheet_size,
                   pasted, css, community_sprites, official_definitions,
                   envVars, written, parseVars>>

MaxOfficial == 2

MaxCommunity == 2

MainNames == {s_club, s_kukri, s_sniperrifle, s_awper_hand}

\* The regions the definitions of this model name: (x, y, width, height).
Regions == {<<0, 0, 300, 40>>, <<300, 0, 212, 20>>}

ParsedDefs(n, ks, rs, sprite) ==
    [i \in 1..n |->
        Item(ks[i], KilliconDefinition(ks[i], sprite, rs[i][1], rs[i][2],
                                       rs[i][3], rs[i][4]))]

InitMain ==
    /\ pc = "main_merge"
    /\ caller = "main"
    /\ aliasTable = WEAPON_ALIASES
    /\ \E n \in 0..MaxOfficial :
          \E ks \in [1..n -> MainNames] :
             /\ Distinct(ks)
             /\ \E rs \in [1..n -> Regions] :
                   definitions = ParsedDefs(n, ks, rs, "d_images")
    /\ official_definitions = definitions
    /\ \E n \in 0..MaxCommunity :
          \E ks \in [1..n -> MainNames] :
             /\ Distinct(ks)
             /\ \E rs \in [1..n -> Regions] :
                   community_definitions = ParsedDefs(n, ks, rs, "community_d")
    /\ sprites = {"d_images"}
    /\ community_sprites \in {{}, {"community_d"}}
    /\ weapons = <<>>
    /\ widx = 0
    /\ weapon_name = <<>>
    /\ frame_name = <<>>
    /\ depth = 0
    /\ result = Pending
    /\ missing = <<>>
    /\ icons = <<>>
    /\ sorted_icons = <<>>
    /\ idx = 0
    /\ current_x = 0
    /\ current_y = 0
    /\ row_height = 0
    /\ max_width = 0
    /\ positions = <<>>
    /\ sheet_size = <<0, 0>>
    /\ pasted = <<>>
    /\ css = <<>>
    /\ InputsPresent
    /\ written = {}
    /\ NotParsing

NextMain ==
    \/ MainMerge
    \/ MainNextWeapon
    \/ FindReturnHit
    \/ FindReturnNone
    \/ MainMissing
    \/ MainNoSheet
    \/ MainCrop
    \/ MainCallPack
    \/ PackEmpty
    \/ PackSort
    \/ PackPlace
    \/ PackPaste
    \/ PackAliases
    \/ MainSaveSprite
    \/ GenerateCss

SpecMain == InitMain /\ [][NextMain]_vars

---------------------------------------------------------------------------
(* main, from its first line to the end of the run. *)

\* if not misc_vpk.exists(): ...; sys.exit(1)
MainMiscMissing ==
    /\ pc = "main"
    /\ ~misc_vpk_exists
    /\ pc' = "exited"
    /\ UNCHANGED <<caller, aliasTable, definitions, community_definitions,
                   sprites, weapons, widx, weapon_name, frame_name, depth,
                   result, missing, icons, sorted_icons, idx, current_x,
                   current_y, row_height, max_width, positions, sheet_size,
                   pasted, css, community_sprites, official_definitions,
                   envVars, written, parseVars>>

\* if not textures_vpk.exists(): ...; sys.exit(1)
MainTexturesMissing ==
    /\ pc = "main"
    /\ misc_vpk_exists
    /\ ~textures_vpk_exists
    /\ pc' = "exited"
    /\ UNCHANGED <<caller, aliasTable, definitions, community_definitions,
                   sprites, weapons, widx, weapon_name, frame_name, depth,
                   result, missing, icons, sorted_icons, idx, current_x,
                   current_y, row_height, max_width, positions, sheet_size,
                   pasted, css, community_sprites, official_definitions,
                   envVars, written, parseVars>>

\* parse_mod_textures: pak['scripts/mod_textures.txt'] raises KeyError;
\* sys.exit(1)
MainParseExit ==
    /\ pc = "main"
    /\ misc_vpk_exists
    /\ textures_vpk_exists
    /\ ~has_mod_textures
    /\ pc' = "exited"
    /\ UNCHANGED <<caller, aliasTable, definitions, community_definitions,
                   sprites, weapons, widx, weapon_name, frame_name, depth,
                   result, missing, icons, sorted_icons, idx, current_x,
                   current_y, row_height, max_width, positions, sheet_size,
                   pasted, css, community_sprites, official_definitions,
                   envVars, written, parseVars>>

\* definitions = parse_mod_textures(misc_vpk); official_definitions is what
\* the parser returns for the document of the archive.
MainParse ==
    /\ pc = "main"
    /\ misc_vpk_exists
    /\ textures_vpk_exists
    /\ has_mod_textures
    /\ definitions' = official_definitions
    /\ pc' = "main_extract"
    /\ UNCHANGED <<caller, aliasTable, community_definitions, sprites,
                   weapons, widx, weapon_name, frame_name, depth, result,
                   missing, icons, sorted_icons, idx, current_x, current_y,
                   row_height, max_width, positions, sheet_size, pasted, css,
                   community_sprites, official_definitions, envVars, written,
                   parseVars>>

\* sprites = extract_sprite_sheets(textures_vpk); if not sprites: sys.exit(1)
MainNoSprites ==
    /\ pc = "main_extract"
    /\ vpk_sprites = {}
    /\ sprites' = vpk_sprites
    /\ pc' = "exited"
    /\ UNCHANGED <<caller, aliasTable, definitions, community_definitions,
                   weapons, widx, weapon_name, frame_name, depth, result,
                   missing, icons, sorted_icons, idx, current_x, current_y,
                   row_height, max_width, positions, sheet_size, pasted, css,
                   community_sprites, official_definitions, envVars, written,
                   parseVars>>

\* sprites = extract_sprite_sheets(textures_vpk), not empty; the community
\* mod is loaded next.
MainExtract ==
    /\ pc = "main_extract"
    /\ vpk_sprites # {}
    /\ sprites' = vpk_sprites
    /\ pc' = "main_merge"
    /\ UNCHANGED <<caller, aliasTable, definitions, community_definitions,
                   weapons, widx, weapon_name, frame_name, depth, result,
                   missing, icons, sorted_icons, idx, current_x, current_y,
                   row_height, max_width, positions, sheet_size, pasted, css,
                   community_sprites, official_definitions, envVars, written,
                   parseVars>>

\* dist_dir.mkdir(exist_ok=True) or sprite_sheet.save(output_webp, ...)
\* raises OSError: the run ends with the exception, no image is left.
MainSaveFails ==
    /\ pc = "packed"
    /\ pc' = "raised"
    /\ UNCHANGED <<caller, aliasTable, definitions, community_definitions,
                   sprites, weapons, widx, weapon_name, frame_name, depth,
                   result, missing, icons, sorted_icons, idx, current_x,
                   current_y, row_height, max_width, positions, sheet_size,
                   pasted, css, community_sprites, official_definitions,
                   envVars, written, parseVars>>

\* generate_css: output_path.write_text(...) raises OSError (the path is a
\* directory, or not writable): the run ends with the exception, after
\* the image was saved.
GenerateCssFails ==
    /\ pc = "css"
    /\ pc' = "raised"
    /\ UNCHANGED <<caller, aliasTable, definitions, community_definitions,
                   sprites, weapons, widx, weapon_name, frame_name, depth,
                   result, missing, icons, sorted_icons, idx, current_x,
                   current_y, row_height, max_width, positions, sheet_size,
                   pasted, css, community_sprites, official_definitions,
                   envVars, written, parseVars>>

InitRun ==
    /\ pc = "main"
    /\ caller = "main"
    /\ aliasTable = WEAPON_ALIASES
    /\ misc_vpk_exists \in BOOLEAN
    /\ textures_vpk_exists \in BOOLEAN
    /\ has_mod_textures \in BOOLEAN
    /\ vpk_sprites \in {{}, {"d_images"}}
    /\ \E n \in 0..MaxOfficial :
          \E ks \in [1..n -> MainNames] :
             /\ Distinct(ks)
             /\ \E rs \in [1..n -> Regions] :
                   official_definitions = ParsedDefs(n, ks, rs, "d_images")
    /\ definitions = <<>>
    /\ \E n \in 0..MaxCommunity :
          \E ks \in [1..n -> MainNames] :
             /\ Distinct(ks)
             /\ \E rs \in [1..n -> Regions] :
                   community_definitions = ParsedDefs(n, ks, rs, "community_d")
    /\ sprites = {}
    /\ community_sprites \in {{}, {"community_d"}}
    /\ weapons = <<>>
    /\ widx = 0
    /\ weapon_name = <<>>
    /\ frame_name = <<>>
    /\ depth = 0
    /\ result = Pending
    /\ missing = <<>>
    /\ icons = <<>>
    /\ sorted_icons = <<>>
    /\ idx = 0
    /\ current_x = 0
    /\ current_y = 0
    /\ row_height = 0
    /\ max_width = 0
    /\ positions = <<>>
    /\ sheet_size = <<0, 0>>
    /\ pasted = <<>>
    /\ css = <<>>
    /\ written = {}
    /\ NotParsing

NextRun ==
    \/ MainMiscMissing
    \/ MainTexturesMissing
    \/ MainParseExit
    \/ MainParse
    \/ MainNoSprites
    \/ MainExtract
    \/ MainMerge
    \/ MainNextWeapon
    \/ FindReturnHit
    \/ FindReturnNone
    \/ MainMissing
    \/ MainNoSheet
    \/ MainCrop
    \/ MainCallPack
    \/ PackEmpty
    \/ PackSort
    \/ PackPlace
    \/ PackPaste
    \/ PackAliases
    \/ MainSaveSprite
    \/ MainSaveFails
    \/ GenerateCss
    \/ GenerateCssFails

SpecRun == InitRun /\ [][NextRun]_vars

---------------------------------------------------------------------------
(* The definition parsers: parse_mod_textures and
   parse_community_mod_textures.  A line is a Python str, as the names are. *)

\* Everything but pc and the parser's own variables.
runVars == <<caller, aliasTable, definitions, community_definitions, sprites,
             weapons, widx, weapon_name, frame_name, depth, result, missing,
             icons, sorted_icons, idx, current_x, current_y, row_height,
             max_width, positions, sheet_size, pasted, css,
             community_sprites, official_definitions, envVars, written>>

s_dfile == <<"d", "f", "i", "l", "e">>
s_x == <<"x">>
s_y == <<"y">>
s_width == <<"w", "i", "d", "t", "h">>
s_height == <<"h", "e", "i", "g", "h", "t">>
s_HUD == <<"H", "U", "D", "/">>
s_HUD_d_images == <<"H", "U", "D", "/", "d", "_", "i", "m", "a", "g", "e", "s">>
s_improvedkillicons == <<"i", "m", "p", "r", "o", "v", "e", "d", "k", "i", "l", "l", "i", "c", "o", "n", "s">>
s_community_ == <<"c", "o", "m", "m", "u", "n", "i", "t", "y", "_">>

ValueError == [tag |-> "ValueError"]
\* re.match returns None: no group is empty, so the empty tuple is free.
NoMatch == <<>>

\* An int object.
IntValue(n) == [tag |-> "int", value |-> n]

\* The whitespace characters of the documents of this model.
Whitespace == {" ", "\t", "\r"}

\* str.strip()
RECURSIVE Strip(_)
Strip(s) ==
    IF s = <<>> THEN s
    ELSE IF Head(s) \in Whitespace THEN Strip(Tail(s))
    ELSE IF s[Len(s)] \in Whitespace THEN Strip(SubSeq(s, 1, Len(s) - 1))
    ELSE s

\* str.startswith
StartsWith(s, prefix) ==
    Len(s) >= Len(prefix) /\ SubSeq(s, 1, Len(prefix)) = prefix

UpperCase == <<"A", "B", "C", "D", "E", "F", "G", "H", "I", "J", "K", "L", "M", "N", "O", "P", "Q", "R", "S", "T", "U", "V", "W", "X", "Y", "Z">>
LowerCase == <<"a", "b", "c", "d", "e", "f", "g", "h", "i", "j", "k", "l", "m", "n", "o", "p", "q", "r", "s", "t", "u", "v", "w", "x", "y", "z">>

\* str.lower()
Lower(s) ==
    [k \in DOMAIN s |->
        IF \E u \in DOMAIN UpperCase : UpperCase[u] = s[k]
        THEN LowerCase[CHOOSE u \in DOMAIN UpperCase : UpperCase[u] = s[k]]
        ELSE s[k]]

\* str.replace(old, new): every occurrence, left to right.
RECURSIVE Replace(_, _, _)
Replace(s, old, new) ==
    IF s = <<>> THEN s
    ELSE IF StartsWith(s, old)
         THEN new \o Replace(SubSeq(s, Len(old) + 1, Len(s)), old, new)
         ELSE <<Head(s)>> \o Replace(Tail(s), old, new)

\* s.split('/')[-1]
RECURSIVE LastPart(_)
LastPart(s) ==
    IF \E k \in DOMAIN s : s[k] = "/" THEN LastPart(Tail(s)) ELSE s

\* The index of the first '"' of s after position from, 0 if there is none.
RECURSIVE NextQuote(_, _)
NextQuote(s, from) ==
    IF from >= Len(s) THEN 0
    ELSE IF s[from + 1] = "\"" THEN from + 1
    ELSE NextQuote(s, from + 1)

\* The index of the first character of s after position from that is no
\* whitespace, 0 if there is none.
RECURSIVE NextBlack(_, _)
NextBlack(s, from) ==
    IF from >= Len(s) THEN 0
    ELSE IF s[from + 1] \notin Whitespace THEN from + 1
    ELSE NextBlack(s, from + 1)

\* re.match(r'"([^"]+)"', line): group 1, or NoMatch.
MatchName(line) ==
    IF line # <<>> /\ line[1] = "\"" /\ NextQuote(line, 1) > 2
    THEN SubSeq(line, 2, NextQuote(line, 1) - 1)
    ELSE NoMatch

\* The groups of the property pattern on a line whose first token ends at
\* q1 and whose second token would open at o2 and end at q2.
PropGroups(line, q1, o2, q2) ==
    IF /\ line # <<>> /\ line[1] = "\"" /\ q1 > 2
       /\ o2 > q1 + 1 /\ line[o2] = "\""
       /\ q2 > o2 + 1
    THEN <<SubSeq(line, 2, q1 - 1), SubSeq(line, o2 + 1, q2 - 1)>>
    ELSE NoMatch

\* re.match(r'"([^"]+)"\s+"([^"]+)"', prop_line): the two groups, or NoMatch.
MatchProp(line) ==
    PropGroups(line, NextQuote(line, 1), NextBlack(line, NextQuote(line, 1)),
               NextQuote(line, NextBlack(line, NextQuote(line, 1))))

\* line.startswith('"') and not line.startswith('"/') [and not
\* line.startswith('//')], and the name pattern matches.
IsNameLine(p, line) ==
    /\ StartsWith(line, <<"\"">>)
    /\ ~StartsWith(line, <<"\"", "/">>)
    /\ p = "community" => ~StartsWith(line, <<"/", "/">>)
    /\ MatchName(line) # NoMatch

\* A variant of the loop test that lets the cursor reach len(lines).
MoreLines_Inclusive(c, ls) == c <= Len(ls)

\* i < len(lines)
MoreLines(c, ls) == c < Len(ls)

\* lines[i] raises IndexError for an index past the end (the cursor is never
\* negative).
RaisesIndexError(ls, c) == c \notin 0..(Len(ls) - 1)

\* lines[i], 0-based.
Line(ls, c) == ls[c + 1]

Digits == <<"0", "1", "2", "3", "4", "5", "6", "7", "8", "9">>

IsDigit(c) == \E d \in DOMAIN Digits : Digits[d] = c

DigitValue(c) == (CHOOSE d \in DOMAIN Digits : Digits[d] = c) - 1

RECURSIVE Decimal(_)
Decimal(ds) ==
    IF ds = <<>> THEN 0
    ELSE 10 * Decimal(SubSeq(ds, 1, Len(ds) - 1)) + DigitValue(ds[Len(ds)])

\* int(value) on a str: surrounding whitespace is dropped, one sign is
\* allowed, the rest must be decimal digits (the values of this model have
\* no underscores); anything else raises ValueError.
ParseInt(value) ==
    LET s == Strip(value)
        signed == s # <<>> /\ s[1] \in {"+", "-"}
        body == IF signed THEN Tail(s) ELSE s
    IN IF body = <<>> \/ \E k \in DOMAIN body : ~IsDigit(body[k])
       THEN ValueError
       ELSE IF signed /\ s[1] = "-" THEN IntValue(0 - Decimal(body))
            ELSE IntValue(Decimal(body))

\* A variant in which a value that is not an integer counts as absent.
IntProp_DefaultOnError(ps, key, default) ==
    IF Has(ps, key) /\ ParseInt(Get(ps, key)) # ValueError
    THEN ParseInt(Get(ps, key))
    ELSE IntValue(default)

\* int(props.get(key, default))
IntProp(ps, key, default) ==
    IF Has(ps, key) THEN ParseInt(Get(ps, key)) ELSE IntValue(default)

\* x, y, width, height of the try block, in the order they are computed.
Coordinates(ps) ==
    <<IntProp(ps, s_x, 0), IntProp(ps, s_y, 0), IntProp(ps, s_width, 32),
      IntProp(ps, s_height, 32)>>

\* 'dfile' in props and the path test of the parser.
Accepts(p, ps) ==
    /\ Has(ps, s_dfile)
    /\ IF p = "official"
       THEN StartsWith(Get(ps, s_dfile), s_HUD_d_images)
       ELSE IsSubstring(s_improvedkillicons, Lower(Get(ps, s_dfile)))

\* dfile.replace('HUD/', '').lower(), or
\* 'community_' + dfile.replace('\\', '/').split('/')[-1]
SpriteName(p, dfile) ==
    IF p = "official"
    THEN Lower(Replace(dfile, s_HUD, <<>>))
    ELSE s_community_ \o LastPart(Replace(dfile, <<"\\">>, <<"/">>))

\* while i < len(lines): line = lines[i].strip(); a name line opens a block
\* (i += 1), any other line is passed over (i += 1 at the end of the body).
ScanLine ==
    /\ pc = "scan"
    /\ MoreLines(cursor, lines)
    /\ reads' = reads \cup {cursor}
    /\ IF RaisesIndexError(lines, cursor)
       THEN /\ pc' = "raised"
            /\ UNCHANGED <<cursor, weapon_block>>
       ELSE \E line \in {Strip(Line(lines, cursor))} :
               /\ cursor' = cursor + 1
               /\ IF IsNameLine(parser, line)
                  THEN weapon_block' = MatchName(line) /\ pc' = "seek_brace"
                  ELSE UNCHANGED weapon_block /\ pc' = "scan"
    /\ UNCHANGED <<runVars, parser, lines, props, parsed, skipped, blocks>>

\* The outer loop ends; return definitions.
ScanDone ==
    /\ pc = "scan"
    /\ ~MoreLines(cursor, lines)
    /\ pc' = "parsed"
    /\ UNCHANGED <<runVars, parser, lines, cursor, weapon_block, props, parsed, skipped, reads, blocks>>

\* while i < len(lines) and '{' not in lines[i]: i += 1; when the brace is
\* found: props = {}; i += 1
SeekBrace ==
    /\ pc = "seek_brace"
    /\ MoreLines(cursor, lines)
    /\ reads' = reads \cup {cursor}
    /\ IF RaisesIndexError(lines, cursor)
       THEN pc' = "raised" /\ UNCHANGED <<cursor, props>>
       ELSE /\ cursor' = cursor + 1
            /\ IF IsSubstring(<<"{">>, Line(lines, cursor))
               THEN props' = <<>> /\ pc' = "collect"
               ELSE UNCHANGED props /\ pc' = "seek_brace"
    /\ UNCHANGED <<runVars, parser, lines, weapon_block, parsed, skipped, blocks>>

\* The lines end before a brace is found: props = {}; i += 1
SeekBraceEnd ==
    /\ pc = "seek_brace"
    /\ ~MoreLines(cursor, lines)
    /\ props' = <<>>
    /\ cursor' = cursor + 1
    /\ pc' = "collect"
    /\ UNCHANGED <<runVars, parser, lines, weapon_block, parsed, skipped, reads, blocks>>

\* while i < len(lines): prop_line = lines[i].strip(); break on '}';
\* props[key.lower()] = value on a property line; i += 1
Collect ==
    /\ pc = "collect"
    /\ MoreLines(cursor, lines)
    /\ reads' = reads \cup {cursor}
    /\ IF RaisesIndexError(lines, cursor)
       THEN pc' = "raised" /\ UNCHANGED <<cursor, props>>
       ELSE \E prop_line \in {Strip(Line(lines, cursor))} :
               IF IsSubstring(<<"}">>, prop_line)
               THEN pc' = "block_end" /\ UNCHANGED <<cursor, props>>
               ELSE /\ \E prop_match \in {MatchProp(prop_line)} :
                          IF prop_match = NoMatch
                          THEN UNCHANGED props
                          ELSE \E key \in {Lower(prop_match[1])} :
                                  props' = Put(props, key, prop_match[2])
                    /\ cursor' = cursor + 1
                    /\ pc' = "collect"
    /\ UNCHANGED <<runVars, parser, lines, weapon_block, parsed, skipped, blocks>>

\* The lines end inside the property block.
CollectEnd ==
    /\ pc = "collect"
    /\ ~MoreLines(cursor, lines)
    /\ pc' = "block_end"
    /\ UNCHANGED <<runVars, parser, lines, cursor, weapon_block, props, parsed, skipped, reads, blocks>>

\* The block is no icon definition of this parser; i += 1
BlockIgnore ==
    /\ pc = "block_end"
    /\ ~Accepts(parser, props)
    /\ cursor' = cursor + 1
    /\ pc' = "scan"
    /\ UNCHANGED <<runVars, parser, lines, weapon_block, props, parsed, skipped, reads, blocks>>

\* definitions[weapon_name] = KilliconDefinition(...); i += 1
BlockDefine ==
    /\ pc = "block_end"
    /\ Accepts(parser, props)
    /\ \A k \in 1..4 : Coordinates(props)[k] # ValueError
    /\ parsed' = Put(parsed, weapon_block,
                     KilliconDefinition(weapon_block,
                                        SpriteName(parser, Get(props, s_dfile)),
                                        Coordinates(props)[1].value,
                                        Coordinates(props)[2].value,
                                        Coordinates(props)[3].value,
                                        Coordinates(props)[4].value))
    /\ cursor' = cursor + 1
    /\ pc' = "scan"
    /\ UNCHANGED <<runVars, parser, lines, weapon_block, props, skipped, reads, blocks>>

\* except (ValueError, KeyError): no definition is stored for the block (the
\* official parser prints a warning); i += 1
BlockSkip ==
    /\ pc = "block_end"
    /\ Accepts(parser, props)
    /\ \E k \in 1..4 : Coordinates(props)[k] = ValueError
    /\ skipped' = Append(skipped, weapon_block)
    /\ cursor' = cursor + 1
    /\ pc' = "scan"
    /\ UNCHANGED <<runVars, parser, lines, weapon_block, props, parsed, reads, blocks>>

NextParse ==
    \/ ScanLine
    \/ ScanDone
    \/ SeekBrace
    \/ SeekBraceEnd
    \/ Collect
    \/ CollectEnd
    \/ BlockIgnore
    \/ BlockDefine
    \/ BlockSkip

\* The parser is called with the lines ls.
ParserCalled(ls) ==
    /\ Idle
    /\ aliasTable = WEAPON_ALIASES
    /\ definitions = <<>>
    /\ weapon_name = <<>>
    /\ frame_name = <<>>
    /\ depth = 0
    /\ result = Pending
    /\ pc = "scan"
    /\ parser \in {"official", "community"}
    /\ lines = ls
    /\ cursor = 0
    /\ weapon_block = <<>>
    /\ props = <<>>
    /\ parsed = <<>>
    /\ skipped = <<>>
    /\ reads = {}

---------------------------------------------------------------------------
(* The line scan on any lines. *)

MaxLines == 4

l_axe == <<"\"", "a", "x", "e", "\"">>
l_open == <<"{">>
l_close == <<"}">>
l_dfile == <<"\t", "\"", "d", "f", "i", "l", "e", "\"", "\t", "\t", "\"", "H", "U", "D", "/", "d", "_", "i", "m", "a", "g", "e", "s", "\"">>
l_x_abc == <<"\t", "\"", "x", "\"", "\t", "\"", "a", "b", "c", "\"">>
l_blank == <<>>

ScanLines == {l_axe, l_open, l_close, l_dfile, l_x_abc, l_blank}

\* content.split('\n') has at least one element.
InitScan ==
    /\ \E n \in 1..MaxLines : \E ls \in [1..n -> ScanLines] : ParserCalled(ls)
    /\ blocks = <<>>

\* The parser runs on its own: a step that can be taken is taken.
SpecScan == InitScan /\ [][NextParse]_vars /\ WF_vars(NextParse)

---------------------------------------------------------------------------
(* The parsers on documents of well-formed blocks. *)

MaxBlocks == 2

BlockNames == <<s_axe, s_saw, s_club, s_kukri>>

\* No line of the property: the empty str is no value a line can give.
Absent == <<>>

v_hud == <<"H", "U", "D", "/", "d", "_", "i", "m", "a", "g", "e", "s">>
v_community == <<"v", "g", "u", "i", "\\", "l", "o", "g", "o", "s", "\\", "i", "m", "p", "r", "o", "v", "e", "d", "k", "i", "l", "l", "i", "c", "o", "n", "s", "\\", "d">>
v_16 == <<"1", "6">>
v_abc == <<"a", "b", "c">>
v_8 == <<"8">>
v_64 == <<"6", "4">>
v_48 == <<"4", "8">>

\* The blocks of one document name sheets of one family.
BlockShapes(dfile) ==
    [dfile : {dfile}, x : {Absent, v_16, v_abc}, y : {Absent, v_8},
     width : {Absent, v_64}, height : {Absent, v_48}]

NameLine(name) == <<"\"">> \o name \o <<"\"">>

PropLine(key, value) ==
    IF value = Absent THEN <<>>
    ELSE <<<<"\t", "\"">> \o key \o <<"\"", "\t", "\"">> \o value \o <<"\"">>>>

\* The lines of the k-th block: name, brace, properties, brace.
BlockLines(k, b) ==
    <<NameLine(BlockNames[k]), l_open>>
    \o PropLine(s_dfile, b.dfile)
    \o PropLine(s_x, b.x)
    \o PropLine(s_y, b.y)
    \o PropLine(<<"W", "i", "d", "t", "h">>, b.width)
    \o PropLine(s_height, b.height)
    \o <<l_close>>

\* The document of the blocks bs, ending in a newline.
RECURSIVE Document(_, _)
Document(bs, k) ==
    IF k > Len(bs) THEN <<l_blank>>
    ELSE BlockLines(k, bs[k]) \o Document(bs, k + 1)

InitParse ==
    /\ \E n \in 1..MaxBlocks :
          \E dfile \in {v_hud, v_community} :
             \E bs \in [1..n -> BlockShapes(dfile)] :
                blocks = bs /\ ParserCalled(Document(bs, 1))

\* Every block of these documents is closed, so the lines never end inside
\* one.
NextDocument ==
    \/ ScanLine
    \/ ScanDone
    \/ SeekBrace
    \/ Collect
    \/ BlockIgnore
    \/ BlockDefine
    \/ BlockSkip

SpecParse == InitParse /\ [][NextDocument]_vars

---------------------------------------------------------------------------
(* Properties of pack_sprites *)

Overlap(r, s) ==
    /\ r.x < s.x + s.width
    /\ s.x < r.x + r.width
    /\ r.y < s.y + s.height
    /\ s.y < r.y + r.height

Placed(name) == \E i \in DOMAIN pasted : pasted[i].name = name

PlacedRect(name) ==
    pasted[CHOOSE i \in DOMAIN pasted : pasted[i].name = name].rect

AfterPlacement == pc \in {"alias", "packed", "css", "done"} /\ icons # <<>>

\* C1: no two rectangles recorded by the placement loop for different names
\* intersect, neither while the loop runs nor in what is pasted.
C1_NoOverlap ==
    /\ pc = "place" =>
         \A i, j \in DOMAIN positions :
            i # j => ~Overlap(positions[i].v, positions[j].v)
    /\ \A i, j \in DOMAIN pasted :
          i # j => ~Overlap(pasted[i].rect, pasted[j].rect)

C1_Witness ==
    /\ pc = "alias"
    /\ Len(pasted) = 3
    /\ \E i, j \in DOMAIN pasted :
          /\ i # j
          /\ pasted[i].rect.y = pasted[j].rect.y
          /\ pasted[i].rect.height # pasted[j].rect.height
    /\ \E i \in DOMAIN pasted : pasted[i].rect.y > 0

\* C2: the composite is as wide as the largest right edge and as high as
\* current_y + row_height of the last row, and holds every placed rect.
C2_SheetHoldsEveryRect ==
    AfterPlacement =>
      /\ sheet_size[2] = current_y + row_height
      /\ \E i \in DOMAIN pasted :
            sheet_size[1] = pasted[i].rect.x + pasted[i].rect.width
      /\ \A i \in DOMAIN pasted :
            /\ pasted[i].rect.x + pasted[i].rect.width <= sheet_size[1]
            /\ pasted[i].rect.y + pasted[i].rect.height <= sheet_size[2]
      /\ Len(pasted) = Len(icons)

C2_Witness ==
    /\ pc = "alias"
    /\ Len(pasted) = 3
    /\ current_x < sheet_size[1]
    /\ current_y > 0

IndexIn(d, k) == CHOOSE i \in DOMAIN d : d[i].k = k

\* seq without its i-th element.
Without(seq, i) == SubSeq(seq, 1, i - 1) \o SubSeq(seq, i + 1, Len(seq))

\* Every order of the elements of seq.
RECURSIVE Reorderings(_)
Reorderings(seq) ==
    IF seq = <<>> THEN {<<>>}
    ELSE UNION {{<<seq[i]>> \o rest : rest \in Reorderings(Without(seq, i))} :
                  i \in DOMAIN seq}

\* The images are taken in order of non-increasing height.
HeightsDescend ==
    pc # "pack" /\ icons # <<>> =>
      /\ sorted_icons \in Reorderings(icons)
      /\ \A i, j \in DOMAIN sorted_icons :
            i < j => sorted_icons[i].v.height >= sorted_icons[j].v.height

\* Images of equal height are taken in the order the input iterates them.
TiesKeepInputOrder ==
    pc # "pack" /\ icons # <<>> =>
      \A i, j \in DOMAIN sorted_icons :
         (i < j /\ sorted_icons[i].v.height = sorted_icons[j].v.height)
            => IndexIn(icons, sorted_icons[i].k) < IndexIn(icons, sorted_icons[j].k)

\* The order of placement depends on the entries alone: every iteration order
\* of the same entries is placed in the same order.
TiesFixedByEntries ==
    pc # "pack" /\ icons # <<>> =>
      \A other \in Reorderings(icons) : SortedByHeight(other) = sorted_icons

\* An image wider than the target is at x = 0 and alone in its row.
WideImageOwnRow ==
    \A i \in DOMAIN positions :
       (pc \in {"place", "alias"} /\ positions[i].v.width > 512) =>
          /\ positions[i].v.x = 0
          /\ \A j \in DOMAIN positions :
                j # i => positions[j].v.y # positions[i].v.y

\* 300x40 and 300x20 are placed at (0,0) and (0,40); the composite is 300x60.
TwoRowExample ==
    \A a, b \in PackNames :
       ( /\ pc = "alias"
         /\ Keys(icons) = {a, b}
         /\ a # b
         /\ Get(icons, a) = [width |-> 300, height |-> 40]
         /\ Get(icons, b) = [width |-> 300, height |-> 20] )
       => /\ Get(positions, a) = Rect(0, 0, 300, 40)
          /\ Get(positions, b) = Rect(0, 40, 300, 20)
          /\ sheet_size = <<300, 60>>

\* Each iteration places the next image of the sorted order, in a new row
\* exactly when current_x + width > 512 and current_x > 0.
RowRule ==
    (pc = "place" /\ idx' = idx + 1) =>
       LET name == sorted_icons[idx].k
           w == sorted_icons[idx].v.width
           h == sorted_icons[idx].v.height
       IN /\ KeyList(positions') = Append(KeyList(positions), name)
          /\ IF current_x + w > 512 /\ current_x > 0
             THEN /\ Get(positions', name) = Rect(0, current_y + row_height, w, h)
                  /\ current_x' = w
                  /\ current_y' = current_y + row_height
                  /\ row_height' = h
             ELSE /\ Get(positions', name) = Rect(current_x, current_y, w, h)
                  /\ current_x' = current_x + w
                  /\ current_y' = current_y
                  /\ row_height' = IF h > row_height THEN h ELSE row_height

\* C3 as stated: non-increasing height with ties fixed by a secondary key of
\* the entries, so that the iteration order of the input does not matter.
C3_TiesFixedBySecondaryKey ==
    /\ HeightsDescend
    /\ TiesFixedByEntries
    /\ WideImageOwnRow
    /\ TwoRowExample

\* C3 as amended: non-increasing height with ties in the input's iteration
\* order (the sort is stable, there is no secondary key); a new row exactly
\* when current_x + width > 512 and current_x > 0; a wide image alone at x = 0;
\* the 300x40 / 300x20 example.
C3_StablePlacementOrder ==
    /\ [](HeightsDescend /\ TiesKeepInputOrder /\ WideImageOwnRow /\ TwoRowExample)
    /\ [][RowRule]_vars

C3_Witness ==
    /\ pc = "alias"
    /\ \E i, j \in DOMAIN sorted_icons :
          /\ i < j
          /\ sorted_icons[i].v.height = sorted_icons[j].v.height
          /\ StrLess(sorted_icons[j].k, sorted_icons[i].k)
    /\ \E i \in DOMAIN positions :
          positions[i].v.width > 512 /\ positions[i].v.y > 0
    /\ \E i \in DOMAIN positions :
          positions[i].v.x > 0

\* C9: after pack_sprites returns, each alias whose canonical name was placed
\* has the canonical's rect; an alias whose canonical was not placed has no
\* entry but the one the placement loop may have given it.
C9_AliasCopiesCanonical ==
    (pc \in {"packed", "css", "done"} /\ icons # <<>>) =>
      \A a \in DOMAIN aliasTable :
         LET alias == aliasTable[a].k
             canonical == aliasTable[a].v
         IN IF Placed(canonical)
            THEN /\ Has(positions, alias)
                 /\ Get(positions, alias) = PlacedRect(canonical)
            ELSE Has(positions, alias) =>
                    /\ Placed(alias)
                    /\ Get(positions, alias) = PlacedRect(alias)

C9_Witness ==
    /\ pc = "packed"
    /\ Placed(s_sniperrifle)
    /\ ~Placed(s_awper_hand)
    /\ Len(pasted) = 2
    /\ PlacedRect(s_sniperrifle).x > 0
    /\ Has(positions, s_awper_hand)
    /\ Get(positions, s_awper_hand) = PlacedRect(s_sniperrifle)

---------------------------------------------------------------------------
(* Properties of generate_css *)

ViaMappings(name, pos) ==
    Has(WEAPON_MAPPINGS, name) /\ Has(pos, Get(WEAPON_MAPPINGS, name))

CarriesRect(rule, rect) ==
    /\ rule.width = rect.width
    /\ rule.height = rect.height
    /\ rule.left = [sign |-> "-", px |-> rect.x]
    /\ rule.top = [sign |-> "-", px |-> rect.y]

\* C8: one rule per name of positions.keys() and of the mapping keys whose
\* target has a position, no other rule, in ascending name order; a name
\* exported only through the mappings carries its target's rect, and every
\* rule carries a rect's width, height and the offsets -x, -y.
C8_CssExportsNameSet ==
    pc = "done" =>
      /\ {css[i].selector : i \in DOMAIN css} =
            Keys(positions) \cup
               {WEAPON_MAPPINGS[j].k : j \in
                  {m \in DOMAIN WEAPON_MAPPINGS :
                      Has(positions, WEAPON_MAPPINGS[m].v)}}
      /\ \A i, j \in DOMAIN css :
            i < j => StrLess(css[i].selector, css[j].selector)
      /\ \A i \in DOMAIN css :
            LET name == css[i].selector
            IN /\ (ViaMappings(name, positions) /\ ~Has(positions, name)) =>
                     CarriesRect(css[i],
                                 Get(positions, Get(WEAPON_MAPPINGS, name)))
               /\ (~ViaMappings(name, positions)) =>
                     CarriesRect(css[i], Get(positions, name))
               /\ (ViaMappings(name, positions) /\ Has(positions, name)) =>
                     \/ CarriesRect(css[i], Get(positions, name))
                     \/ CarriesRect(css[i],
                                    Get(positions, Get(WEAPON_MAPPINGS, name)))

C8_Witness ==
    /\ pc = "done"
    /\ Has(positions, s_club)
    /\ ~Has(positions, s_kukri)
    /\ Get(positions, s_club).x > 0
    /\ Len(css) = 4
    /\ \E i \in DOMAIN css :
          /\ css[i].selector = s_kukri
          /\ CarriesRect(css[i], Get(positions, s_club))

\* The mapping target of name holds the same rect as name itself.
SameRectAsTarget(name, pos) ==
    Get(pos, Get(WEAPON_MAPPINGS, name)) = Get(pos, name)

\* positions[target] is positions[name] by construction: the target is the
\* name itself, or an alias key that the post-step of pack_sprites filled
\* from the name.
TargetIsOwnEntry(name) ==
    LET target == Get(WEAPON_MAPPINGS, name)
    IN \/ target = name
       \/ Has(WEAPON_ALIASES, target) /\ Get(WEAPON_ALIASES, target) = name

\* C14 as stated: a name that is a key of positions and also a mapping key
\* whose target is a key of positions is emitted with the target's rect and
\* not with its own; a rule carries the name's own rect only when the name
\* has no mapping target in positions.
C14_MappedNameNeverOwnRect ==
    pc = "done" =>
      \A i \in DOMAIN css :
         LET name == css[i].selector
         IN /\ (Has(positions, name) /\ ViaMappings(name, positions)) =>
                  /\ CarriesRect(css[i],
                                 Get(positions, Get(WEAPON_MAPPINGS, name)))
                  /\ ~CarriesRect(css[i], Get(positions, name))
            /\ (Has(positions, name) /\ CarriesRect(css[i], Get(positions, name)))
                  => ~ViaMappings(name, positions)

\* C14, amended: a name that is a key of positions and also a mapping key
\* whose target is a key of positions is emitted with positions[target]; a
\* name without a mapping target in positions is emitted with positions[name].
\* The emitted rect is the name's own rect exactly when the two entries hold
\* the same rect, and they do only when the target is the name itself or an
\* alias key whose canonical name is the name.
C14_MappedNameTakesTargetEntry ==
    pc = "done" =>
      \A i \in DOMAIN css :
         LET name == css[i].selector
         IN /\ (Has(positions, name) /\ ViaMappings(name, positions)) =>
                  /\ CarriesRect(css[i],
                                 Get(positions, Get(WEAPON_MAPPINGS, name)))
                  /\ CarriesRect(css[i], Get(positions, name))
                        <=> SameRectAsTarget(name, positions)
                  /\ SameRectAsTarget(name, positions)
                        => TargetIsOwnEntry(name)
            /\ (Has(positions, name) /\ ~ViaMappings(name, positions)) =>
                  CarriesRect(css[i], Get(positions, name))

\* kukri and club are both packed and kukri's rule carries club's rect, not
\* its own; holy_mackerel is packed and its rule carries the rect of
\* holymackerel, which is its own.
C14_Witness ==
    /\ pc = "done"
    /\ Has(positions, s_kukri)
    /\ Has(positions, s_club)
    /\ Get(positions, s_kukri) # Get(positions, s_club)
    /\ \E i \in DOMAIN css :
          /\ css[i].selector = s_kukri
          /\ CarriesRect(css[i], Get(positions, s_club))
          /\ ~CarriesRect(css[i], Get(positions, s_kukri))
    /\ Has(positions, s_holy_mackerel)
    /\ Has(positions, s_holymackerel)
    /\ \E i \in DOMAIN css :
          /\ css[i].selector = s_holy_mackerel
          /\ CarriesRect(css[i], Get(positions, s_holymackerel))
          /\ CarriesRect(css[i], Get(positions, s_holy_mackerel))

---------------------------------------------------------------------------
(* Properties of main *)

\* C7: after the merge each name defined by both sources has the community
\* definition, every other name the definition of the source that has it,
\* each name once; no name is lost and no other name appears.
C7_MergeLastWins ==
    (caller = "main" /\ pc # "main_merge") =>
      /\ Keys(definitions) =
            Keys(official_definitions) \cup Keys(community_definitions)
      /\ \A i, j \in DOMAIN definitions :
            definitions[i].k = definitions[j].k => i = j
      /\ \A k \in Keys(community_definitions) :
            Get(definitions, k) = Get(community_definitions, k)
      /\ \A k \in Keys(official_definitions) \ Keys(community_definitions) :
            Get(definitions, k) = Get(official_definitions, k)

C7_Witness ==
    /\ caller = "main"
    /\ pc = "main_loop"
    /\ \E k \in Keys(official_definitions) \cap Keys(community_definitions) :
          /\ Get(official_definitions, k) # Get(community_definitions, k)
          /\ Get(definitions, k) = Get(community_definitions, k)
    /\ Keys(official_definitions) \ Keys(community_definitions) # {}
    /\ Keys(community_definitions) \ Keys(official_definitions) # {}

\* C10: alias names cost no composite pixels: a region is placed and pasted
\* only for resolved names that are not alias keys, one per such name; every
\* alias position is a copy of its canonical's; and every pasted region is
\* still the position of the name it was placed for.
C10_AliasesCostNoPixels ==
    (caller = "main" /\ pc = "done") =>
      /\ \A i \in DOMAIN pasted : ~Has(aliasTable, pasted[i].name)
      /\ \A n \in Keys(icons) \ Keys(aliasTable) :
            Cardinality({i \in DOMAIN pasted : pasted[i].name = n}) = 1
      /\ \A a \in DOMAIN aliasTable :
            Has(positions, aliasTable[a].k) =>
               /\ Has(positions, aliasTable[a].v)
               /\ Get(positions, aliasTable[a].k) =
                     Get(positions, aliasTable[a].v)
      /\ \A i \in DOMAIN pasted :
            /\ Has(positions, pasted[i].name)
            /\ Get(positions, pasted[i].name) = pasted[i].rect

OutputFiles == {"killicons.webp", "killicons.css"}

Ended == pc \in {"done", "exited", "raised"}

\* C11: in every run that has ended, normally or by a fatal error, either
\* both output files have been written or neither has.
C11_OutputsAllOrNothing ==
    Ended => (written = {} \/ written = OutputFiles)

---------------------------------------------------------------------------
(* Properties of the definition parsers *)

\* C13: the line scan terminates on every finite sequence of lines, reads
\* lines only at the indices 0..len(lines)-1, never moves the cursor back,
\* and ends with the cursor past the last line.
C13_ScanTerminatesInBounds ==
    /\ [](reads \subseteq 0..(Len(lines) - 1))
    /\ [][cursor' >= cursor]_vars
    /\ <>(pc = "parsed")
    /\ [](pc = "parsed" => cursor >= Len(lines))

\* The lines end inside a property block that is never closed, and the scan
\* has returned with the block's definition.
C13_Witness ==
    /\ pc = "parsed"
    /\ lines[Len(lines)] = l_dfile
    /\ \A k \in DOMAIN lines : lines[k] # l_close
    /\ Has(parsed, s_axe)
    /\ reads = 0..(Len(lines) - 1)
    /\ cursor = Len(lines) + 1

\* The decimal values written in the documents.
Parsable(v) == v \in {v_16, v_8, v_64, v_48}

IntegerOf(v) ==
    CASE v = v_16 -> 16 [] v = v_8 -> 8 [] v = v_64 -> 64 [] v = v_48 -> 48

\* The block names a sheet of the family the running parser accepts.
FitsParser(b) ==
    \/ parser = "official" /\ b.dfile = v_hud
    \/ parser = "community" /\ b.dfile = v_community

GoodNumbers(b) ==
    \A v \in {b.x, b.y, b.width, b.height} : v = Absent \/ Parsable(v)

HasCoordinates(d, x, y, width, height) ==
    d.x = x /\ d.y = y /\ d.width = width /\ d.height = height

\* C12 as stated: every accepted block has a definition in which a property
\* that is absent or unparsable has its default 0, 0, 32, 32 and any other
\* its parsed value.
C12_UnparsableTakesDefault ==
    pc = "parsed" =>
      \A k \in DOMAIN blocks :
         LET b == blocks[k]
             OrDefault(v, default) ==
                 IF v # Absent /\ Parsable(v) THEN IntegerOf(v) ELSE default
         IN FitsParser(b) =>
              /\ Has(parsed, BlockNames[k])
              /\ HasCoordinates(Get(parsed, BlockNames[k]),
                                OrDefault(b.x, 0), OrDefault(b.y, 0),
                                OrDefault(b.width, 32), OrDefault(b.height, 32))

\* C12: an accepted block whose present properties are all integers has a
\* definition with the parsed value of each present property and the
\* default 0, 0, 32, 32 of each absent one; an accepted block with an
\* unparsable property has no definition; the parse never ends by an
\* exception, so the blocks after a bad one are parsed as any other.
C12_DefaultWhenAbsentSkipWhenUnparsable ==
    /\ pc # "raised"
    /\ pc = "parsed" =>
         \A k \in DOMAIN blocks :
            LET b == blocks[k]
                OrDefault(v, default) ==
                    IF v = Absent THEN default ELSE IntegerOf(v)
            IN FitsParser(b) =>
                 IF GoodNumbers(b)
                 THEN /\ Has(parsed, BlockNames[k])
                      /\ HasCoordinates(Get(parsed, BlockNames[k]),
                                        OrDefault(b.x, 0), OrDefault(b.y, 0),
                                        OrDefault(b.width, 32),
                                        OrDefault(b.height, 32))
                 ELSE ~Has(parsed, BlockNames[k])

\* The first block has x "abc" and is skipped; the second, with x 16, width
\* 64 and neither y nor height, is defined.
C12_Witness ==
    /\ pc = "parsed"
    /\ Len(blocks) = 2
    /\ FitsParser(blocks[1])
    /\ blocks[1].x = v_abc
    /\ blocks[2].x = v_16 /\ blocks[2].y = Absent
    /\ blocks[2].width = v_64 /\ blocks[2].height = Absent
    /\ skipped = <<s_axe>>
    /\ ~Has(parsed, s_axe)
    /\ Has(parsed, s_saw)
    /\ HasCoordinates(Get(parsed, s_saw), 16, 0, 64, 32)

---------------------------------------------------------------------------
(* Properties of find_weapon_icon *)

Values(d) == {d[i].v : i \in DOMAIN d}

\* C4: find_weapon_icon is deterministic, total and pure: in every call
\* exactly one continuation applies; the call ends, after at most as many
\* alias redirections as the alias table has entries, by returning a value of
\* the definitions mapping or None; it never raises, and it changes neither
\* the definitions nor the alias table.
C4_FindIsTotalAndPure ==
    /\ [](/\ result # RecursionError
          /\ pc # "raised"
          /\ depth <= Len(aliasTable)
          /\ pc = "find" => ENABLED NextResolve
          /\ ~(ENABLED FindReturnHit /\ ENABLED FindAlias)
          /\ ~(ENABLED FindReturnHit /\ ENABLED FindReturnNone)
          /\ ~(ENABLED FindAlias /\ ENABLED FindReturnNone)
          /\ pc = "returned" => result = None \/ result \in Values(definitions))
    /\ [][definitions' = definitions /\ aliasTable' = aliasTable]_vars

C4_Witness ==
    /\ pc = "returned"
    /\ depth = 1
    /\ weapon_name = s_awper_hand
    /\ result \in Values(definitions)

\* C5: under an alias cycle that steps 1 to 3 never leave, the call returns
\* None after at most 8 redirections.
C5_CycleResolvesNotFound ==
    ( /\ Has(aliasTable, weapon_name)
      /\ Get(aliasTable, Get(aliasTable, weapon_name)) = weapon_name
      /\ DirectMatch(weapon_name, definitions) = None
      /\ DirectMatch(Get(aliasTable, weapon_name), definitions) = None )
    => /\ depth <= 8
       /\ pc # "raised"
       /\ pc = "returned" => result = None

\* C6: the steps are applied in order to the mapped name and the first hit
\* wins: exact, then _kill, then death, then the first partial match in
\* iteration order; only when all miss is the original name looked up in the
\* alias table and its target resolved by the same steps; else None.
C6_StepsInOrder ==
    /\ [](pc = "returned" =>
            LET mapped == IF Has(WEAPON_MAPPINGS, frame_name)
                          THEN Get(WEAPON_MAPPINGS, frame_name)
                          ELSE frame_name
                kill == mapped \o <<"_", "k", "i", "l", "l">>
                death == mapped \o <<"d", "e", "a", "t", "h">>
                partial == {i \in DOMAIN definitions :
                              \/ IsSubstring(mapped, definitions[i].k)
                              \/ IsSubstring(definitions[i].k, mapped)}
            IN /\ IF Has(definitions, mapped)
                     THEN result = Get(definitions, mapped)
                  ELSE IF Has(definitions, kill)
                     THEN result = Get(definitions, kill)
                  ELSE IF Has(definitions, death)
                     THEN result = Get(definitions, death)
                  ELSE IF partial # {}
                     THEN result =
                            definitions[CHOOSE i \in partial :
                                          \A j \in partial : i <= j].v
                  ELSE result = None /\ ~Has(aliasTable, frame_name)
               /\ depth = 0 => frame_name = weapon_name
               /\ (weapon_name = s_world /\ Has(definitions, s_skull))
                     => result = Get(definitions, s_skull)
               /\ (weapon_name = s_pickaxe
                     /\ KeyList(definitions) = <<s_unique_pickaxe>>)
                     => result = Get(definitions, s_unique_pickaxe))
    /\ [][frame_name' # frame_name =>
            /\ DirectMatch(frame_name, definitions) = None
            /\ Has(aliasTable, frame_name)
            /\ frame_name' = Get(aliasTable, frame_name)
            /\ pc' = "find"
            /\ result' = Pending]_vars

C6_Witness ==
    /\ pc = "returned"
    /\ weapon_name = s_pickaxe
    /\ KeyList(definitions) = <<s_axe, s_unique_pickaxe>>
    /\ result = Get(definitions, s_axe)

====
